---- MODULE Spec2Model ----
(***************************************************************************)
(* Model of bibeasy's reference reconciliation (bibeasy/utils.py).         *)
(*                                                                         *)
(* find_matching_ref(df_csv, df_ccv, pubtypes) is modelled statement by    *)
(* statement: one action per pass through the body of the outer loop over  *)
(* publication types (BeginKind / EndKind), one per pass through the body  *)
(* of the inner loop over the spreadsheet rows (ProcessRow) and one for    *)
(* the return.  A data frame is a sequence of rows; the index label of a   *)
(* row is its position (the frames are built with a RangeIndex).           *)
(***************************************************************************)
EXTENDS Naturals, Sequences, FiniteSets, TLC

\* ------------------------------------------------------------------ bounds
\* Largest number of rows of the spreadsheet frame (df_csv).
MaxA == 2
\* Largest number of rows of the CCV frame (df_ccv).
MaxB == 2

\* ------------------------------------------------------- program constants
\* The two types find_matching_ref falls back to (utils.py:164).
DefaultPubtypes == <<"article", "proceedings">>

\* CCVTYPE2PREFIX composed with usertype2ccvtype (utils.py:22,31).
Prefix(t) == IF t = "article" THEN "J" ELSE "C"

\* check_mismatched_fields (utils.py:159), in the order they are compared.
check_mismatched_fields == <<"Authors", "Journal/Conference">>

\* Sentinels written into the mapping (utils.py:202,205).
MISSED == "missed"
DUPL == "dupl"

\* --------------------------------------------------------------- input data
Kinds == {"article", "proceedings"}
Titles == {"Foo", "Bar"}
\* Journal/Conference holds a journal name in an article row and a conference
\* name in a proceedings row.
VenuesOf(t) == IF t = "article" THEN {"Nature", "Science"} ELSE {"ISMRM"}
Venues == UNION {VenuesOf(t) : t \in Kinds}
FullAuthors == "A. One, B. Two"
ShortAuthors == "A. One"

\* The rows of the given kinds whose Authors are drawn from authors.
RowsOf(kinds, authors) ==
    {r \in [Type : kinds, Title : Titles, JournalConference : Venues,
            Authors : authors] : r.JournalConference \in VenuesOf(r.Type)}

SeqsUpTo(S, n) == UNION {[1..m -> S] : m \in 0..n}

\* Number of rows of type t among the first i rows of s.
RECURSIVE CountType(_, _, _)
CountType(s, t, i) ==
    IF i = 0 THEN 0
    ELSE CountType(s, t, i - 1) + (IF s[i].Type = t THEN 1 ELSE 0)

\* The spreadsheet frame: every row carries the ID typed in its ID column;
\* here the i-th row is "csv<i>".
CsvFrame(s) ==
    [i \in 1..Len(s) |->
        [ID |-> "csv" \o ToString(i), Type |-> s[i].Type, Title |-> s[i].Title,
         JournalConference |-> s[i].JournalConference, Authors |-> s[i].Authors]]

\* The CCV frame as xml_to_df builds it: the ID of a row is the prefix of its
\* type followed by its 1-based rank among the rows of that type.
CcvFrame(s) ==
    [i \in 1..Len(s) |->
        [ID |-> Prefix(s[i].Type) \o ToString(CountType(s, s[i].Type, i)),
         Type |-> s[i].Type, Title |-> s[i].Title,
         JournalConference |-> s[i].JournalConference, Authors |-> s[i].Authors]]

\* The publication types the package knows (usertype2prefix, utils.py:26-30).
Vocabulary == {"article", "proceedings", "talk", "bookchapter"}

\* The values of the pubtypes argument: none given, one type, both types, or
\* a type outside the vocabulary.
PubtypesArgs ==
    {<<>>, <<"article">>, <<"proceedings">>, <<"proceedings", "article">>,
     <<"poster">>}

\* -------------------------------------------------------------------- state
VARIABLES
    df_csv,            \* argument: the spreadsheet frame
    df_ccv,            \* argument: the CCV frame
    pubtypes,          \* argument: the requested types, as passed
    pc,                \* "loop" | "rows" | "done" | "raised"
    k,                 \* position of the outer loop in the list of types
    rows,              \* index labels of df_csv the inner loop has yet to visit
    csv2ccv,           \* the local dict csv2ccv
    df_ccv_unmatched,  \* index labels of the frame df_ccv_unmatched
    n_found, n_missed, n_duplicate,
    log,               \* one entry per row line logged (with its mismatch warning)
    orphans,           \* one entry per "GSHEET [missed]" line logged
    results,           \* one entry per "Results for type" line printed
    err,               \* the exception that left the function, "" when none
    run,               \* 1 in the first call on the arguments, 2 in a repeated call
    first,             \* what the first call logged, printed and returned
    xml_file,          \* sync: the entries of Contributions/Publications in fname_xml
    xml_before,        \* sync: xml_file as it was when the call began
    tree,              \* sync: the same entries in the parsed tree (in memory)
    pos,               \* sync: position of the loop over the entries
    spc,               \* sync: "idle" | "call" | "loop" | "done" | "raised"
    serr,              \* sync: the exception that left sync, "" when none
    calls,             \* sync: 1 in the first call, 2 in a repeated call
    first_sync,        \* sync: how the first call ended and what it left
    input_refs,        \* replace_ref_in_text: the line of text it is given
    df_old,            \* replace_ref_in_text: the frame the text's IDs refer to
    df_new,            \* replace_ref_in_text: the frame the new IDs come from
    line,              \* replace_ref_in_text: the line being rewritten
    ref_blocks,        \* replace_ref_in_text: the blocks still to replace
    printed,           \* replace_ref_in_text: the line it printed
    tpc,               \* replace_ref_in_text: "idle" | "blocks" | "done" | "raised"
    terr,              \* replace_ref_in_text: the exception that left it
    xml_doc,           \* xml_to_df: the file at xml_path (whether it exists, its Publications section)
    refcounters,       \* xml_to_df: entries counted so far, per label
    obj_lst,           \* xml_to_df: the records built so far
    xpos,              \* xml_to_df: position of the loop over the entries
    df_xml,            \* xml_to_df: the frame it returned
    xpc,               \* xml_to_df: "idle" | "call" | "loop" | "done" | "raised"
    xerr,              \* xml_to_df: the exception that left it
    loader,            \* loader: "excel_to_df" or "load_gsheet_contents"
    excel_source,      \* loader: the workbook (its sheet names in order, the rows of each sheet)
    type_filter,       \* loader: the sheet names requested, if given
    to_read,           \* loader: the sheet names the loop has still to read
    sub_dfs,           \* loader: the frames of the sheets read so far
    return_df,         \* loader: the frame returned
    lpc,               \* loader: "idle" | "call" | "loop" | "done" | "raised"
    lerr,              \* loader: the exception raised, with the two sets its message names
    args,              \* gsheet_to_df: the arguments (check_labels, filter, min_year, reverse)
    loaded,            \* gsheet_to_df: the frame load_gsheet_contents returns
    label_file,        \* gsheet_to_df: the lines of the file of authorized labels
    df_clean,          \* gsheet_to_df: df_csv after its empty rows have been dropped
    gs_df,             \* gsheet_to_df: df_csv
    gpc,               \* gsheet_to_df: "idle" | "call" | "cleaned" | "checked" | "done" | "raised"
    gerr,              \* gsheet_to_df: the exception raised, with the rows its message shows
    str_num,           \* parse_num_list: the string it is given
    elements,          \* parse_num_list: the elements still to parse
    list_num,          \* parse_num_list: the numbers collected so far
    ppc,               \* parse_num_list: "idle" | "call" | "loop" | "done" | "raised"
    perr,              \* parse_num_list: the exception that left it
    input_xml,         \* student_asterisk_helper: the fields of the input document, in document order
    ast_tree,          \* student_asterisk_helper: the fields of the tree in memory
    elem_cache,        \* student_asterisk_helper: the field whose value element was seen last (0: name not bound)
    to_visit,          \* student_asterisk_helper: the elements tree.iter() has still to yield
    output_xml,        \* student_asterisk_helper: the fields of the document written
    apc,               \* student_asterisk_helper: "idle" | "iter" | "done" | "raised"
    aerr               \* student_asterisk_helper: the exception that ended the script

\* The state of a call of find_matching_ref, and what lies outside it.
fmrVars == <<df_csv, df_ccv, pubtypes, pc, k, rows, csv2ccv, df_ccv_unmatched,
             n_found, n_missed, n_duplicate, log, orphans, results, err>>
callerVars == <<run, first>>
syncVars == <<xml_file, xml_before, tree, pos, spc, serr, calls, first_sync>>

textVars == <<input_refs, df_old, df_new, line, ref_blocks, printed, tpc, terr>>
xmlVars == <<xml_doc, refcounters, obj_lst, xpos, df_xml, xpc, xerr>>
loadVars == <<loader, excel_source, type_filter, to_read, sub_dfs, return_df, lpc, lerr>>
gsVars == <<args, loaded, label_file, df_clean, gs_df, gpc, gerr>>
parseVars == <<str_num, elements, list_num, ppc, perr>>
starVars == <<input_xml, ast_tree, elem_cache, to_visit, output_xml, apc, aerr>>
vars == <<fmrVars, callerVars, syncVars, textVars, xmlVars, loadVars, gsVars, parseVars, starVars>>

\* ------------------------------------------------------------------ helpers
\* utils.py:163-164
EffectivePubtypes(p) == IF Len(p) < 1 THEN DefaultPubtypes ELSE p

\* The index labels of frame df, in frame order (df.index.values).
IndexOf(df) == [i \in 1..Len(df) |-> i]

\* df[df['Type'] == pubtype]
OfType(df, t) == SelectSeq(IndexOf(df), LAMBDA i : df[i].Type = t)

\* Candidates without the comparison of titles (line 179 left out).
CandidatesAnyTitle(ccv, row) ==
    SelectSeq(IndexOf(ccv), LAMBDA i : ccv[i].Type = row.Type)

\* utils.py:177-180: the rows of df_ccv with the type and the title of row.
Candidates(ccv, row) ==
    SelectSeq(IndexOf(ccv),
              LAMBDA i : ccv[i].Type = row.Type /\ ccv[i].Title = row.Title)

Range(s) == {s[i] : i \in 1..Len(s)}

\* utils.py:183-187: with two candidates or more, the first candidate whose
\* venue equals the row's replaces id_ccv by np.array(<that label>), an array
\* of no dimension; otherwise id_ccv stays the array of all candidates.
\* sized tells whether len() applies to the value.
VenueFilter(ccv, cand, row) ==
    LET SameVenue(j) == ccv[j].JournalConference = row.JournalConference
        hits == SelectSeq(cand, SameVenue)
    IN IF Len(cand) >= 2 /\ hits # <<>>
       THEN [sized |-> FALSE, vals |-> <<hits[1]>>]
       ELSE [sized |-> TRUE, vals |-> cand]

\* utils.py:196-198: the checked fields whose values differ, in order.
FieldOf(r, f) == IF f = "Authors" THEN r.Authors ELSE r.JournalConference
\* Mismatch that compares the first of the checked fields only.
MismatchFirstFieldOnly(b, row) ==
    IF b.Authors = row.Authors THEN <<>> ELSE <<"Authors">>

Mismatch(b, row) ==
    LET Differs(f) == ~(FieldOf(b, f) = FieldOf(row, f))
    IN SelectSeq(check_mismatched_fields, Differs)

\* csv2ccv[key] = val
Put(d, key, val) ==
    [x \in DOMAIN d \cup {key} |-> IF x = key THEN val ELSE d[x]]

EmptyDict == [x \in {} |-> ""]

\* Drop that leaves the frame as it is (line 193 without effect).
DropNothing(unmatched, j) == unmatched

\* utils.py:193, DataFrame.drop(label): the frame without the row of that
\* label.  The label must be in the frame (errors='raise'), see ProcessRow.
Drop(unmatched, j) == unmatched \ {j}

\* A drop applied to the frame df_ccv itself: the cells of row j are blanked
\* (the labels of the other rows stay).
DroppedFromSource(ccv, j) ==
    [ccv EXCEPT ![j].Title = "", ![j].JournalConference = ""]

\* utils.py:172,193: df_ccv_unmatched is a copy of the selected rows and
\* drop() returns a new frame, so df_ccv is after the drop what it was before.
SourceAfterDrop(ccv, j) == ccv

\* utils.py:220-221: one line per row left in df_ccv_unmatched, in frame order.
OrphanLines(ccv, unmatched, t) ==
    LET idx == SelectSeq(IndexOf(ccv), LAMBDA j : j \in unmatched)
    IN [i \in 1..Len(idx) |-> [kind |-> t, ccv |-> ccv[idx[i]].ID]]

\* --------------------------------------------------------------------- Init
\* Two families of arguments, each with frames of at most MaxA and MaxB
\* rows: rows of both kinds whose author lists agree on both sides, called
\* with any of PubtypesArgs; and article rows whose CCV author list may be
\* the shortened one, called for articles.
MixedKinds ==
    /\ \E a \in SeqsUpTo(RowsOf(Kinds, {FullAuthors}), MaxA) : df_csv = CsvFrame(a)
    /\ \E b \in SeqsUpTo(RowsOf(Kinds, {FullAuthors}), MaxB) : df_ccv = CcvFrame(b)
    /\ pubtypes \in PubtypesArgs

MixedAuthors ==
    /\ \E a \in SeqsUpTo(RowsOf({"article"}, {FullAuthors}), MaxA) :
           df_csv = CsvFrame(a)
    /\ \E b \in SeqsUpTo(RowsOf({"article"}, {FullAuthors, ShortAuthors}), MaxB) :
           df_ccv = CcvFrame(b)
    /\ pubtypes = <<"article">>

\* The locals of a call that has not entered the loop yet.
FreshCall ==
    /\ pc = "loop"
    /\ k = 1
    /\ rows = <<>>
    /\ csv2ccv = EmptyDict
    /\ df_ccv_unmatched = {}
    /\ n_found = 0 /\ n_missed = 0 /\ n_duplicate = 0
    /\ log = <<>>
    /\ orphans = <<>>
    /\ results = <<>>
    /\ err = ""

\* What a call has produced: how it ended, the dict it built, and the lines it
\* logged and printed.
Outcome ==
    [pc |-> pc, err |-> err, csv2ccv |-> csv2ccv, log |-> log,
     orphans |-> orphans, results |-> results]
NoOutcome ==
    [pc |-> "", err |-> "", csv2ccv |-> EmptyDict, log |-> <<>>,
     orphans |-> <<>>, results |-> <<>>]

FirstCall == run = 1 /\ first = NoOutcome

\* sync is not running.
NoSync == [spc |-> "", serr |-> "", file |-> <<>>, tree |-> <<>>]
SyncIdle ==
    /\ xml_file = <<>> /\ xml_before = <<>> /\ tree = <<>>
    /\ pos = 0 /\ spc = "idle" /\ serr = ""
    /\ calls = 1 /\ first_sync = NoSync

\* student_asterisk_helper has not been run.
StarIdle ==
    /\ input_xml = <<>> /\ ast_tree = <<>> /\ elem_cache = 0 /\ to_visit = <<>>
    /\ output_xml = <<>> /\ apc = "idle" /\ aerr = ""

\* parse_num_list has not been called.
ParseIdle ==
    /\ str_num = <<>> /\ elements = <<>> /\ list_num = <<>>
    /\ ppc = "idle" /\ perr = ""

\* gsheet_to_df has not been called.
NoFrame == [columns |-> {}, rows |-> <<>>]
NoArgs == [check_labels |-> FALSE, filter |-> "", min_year |-> 0, reverse |-> FALSE]
NoGsError == [type |-> "", shown |-> <<>>]
GsIdle ==
    /\ args = NoArgs /\ loaded = NoFrame /\ label_file = <<>>
    /\ df_clean = NoFrame /\ gs_df = NoFrame
    /\ gpc = "idle" /\ gerr = NoGsError

\* No loader has been called.
NoError == [type |-> "", invalid |-> {}, valid |-> {}]
NoWorkbook == [sheet_names |-> <<>>, sheets |-> <<>>]
\* type_filter is None.
NotGiven == [given |-> FALSE, names |-> <<>>]
LoadIdle ==
    /\ loader = "" /\ excel_source = NoWorkbook /\ type_filter = NotGiven
    /\ to_read = <<>> /\ sub_dfs = <<>> /\ return_df = <<>>
    /\ lpc = "idle" /\ lerr = NoError

\* xml_to_df has not been called.
NoDoc == [exists |-> FALSE, section |-> FALSE, entries |-> <<>>]
XmlIdle ==
    /\ xml_doc = NoDoc /\ refcounters = <<>> /\ obj_lst = <<>>
    /\ xpos = 0 /\ df_xml = <<>> /\ xpc = "idle" /\ xerr = ""

\* replace_ref_in_text has not been called.
TextIdle ==
    /\ input_refs = <<>> /\ df_old = <<>> /\ df_new = <<>>
    /\ line = <<>> /\ ref_blocks = <<>> /\ printed = <<>>
    /\ tpc = "idle" /\ terr = ""

Init ==
    /\ (MixedKinds \/ MixedAuthors)
    /\ FreshCall
    /\ FirstCall /\ StarIdle /\ ParseIdle /\ GsIdle /\ LoadIdle /\ XmlIdle
    /\ SyncIdle
    /\ TextIdle

\* ------------------------------------------------------------------ actions
\* utils.py:166-173: enter the body of the outer loop for the next type.
BeginKind ==
    /\ pc = "loop"
    /\ k <= Len(EffectivePubtypes(pubtypes))
    /\ LET pubtype == EffectivePubtypes(pubtypes)[k]
       IN /\ csv2ccv' = EmptyDict
          /\ n_found' = 0 /\ n_missed' = 0 /\ n_duplicate' = 0
          /\ df_ccv_unmatched' = Range(OfType(df_ccv, pubtype))
          /\ rows' = OfType(df_csv, pubtype)
    /\ pc' = "rows"
    /\ UNCHANGED <<df_csv, df_ccv, pubtypes, k, log, orphans, results, err>>
    /\ UNCHANGED <<callerVars, syncVars, textVars, xmlVars, loadVars, gsVars, parseVars, starVars>>

\* utils.py:173-217: one pass through the body of the inner loop.
ProcessRow ==
    /\ pc = "rows"
    /\ rows # <<>>
    /\ LET row == df_csv[Head(rows)]
           pubtype == EffectivePubtypes(pubtypes)[k]
           id_ccv == VenueFilter(df_ccv, Candidates(df_ccv, row), row)
           n == Len(id_ccv.vals)
           Line(lvl, val, mm) ==
               [level |-> lvl, kind |-> pubtype, gsheet |-> row.ID, ccv |-> val,
                mismatch |-> mm]
       IN IF ~id_ccv.sized
          THEN \* line 190: len() of an array without dimension raises TypeError
               /\ pc' = "raised" /\ err' = "TypeError"
               /\ UNCHANGED <<rows, csv2ccv, df_ccv_unmatched, n_found, n_missed,
                              n_duplicate, log, df_ccv>>
          ELSE IF n = 1
          THEN LET j == id_ccv.vals[1]
               IN /\ csv2ccv' = Put(csv2ccv, row.ID, df_ccv[j].ID)
                  /\ IF j \in df_ccv_unmatched
                     THEN /\ df_ccv_unmatched' = Drop(df_ccv_unmatched, j)
                          /\ df_ccv' = SourceAfterDrop(df_ccv, j)
                          /\ n_found' = n_found + 1
                          /\ log' = Append(log, Line("info", df_ccv[j].ID,
                                                     Mismatch(df_ccv[j], row)))
                          /\ rows' = Tail(rows)
                          /\ UNCHANGED <<pc, err, n_missed, n_duplicate>>
                     ELSE \* line 193: drop() of a label that is not in the
                          \* frame raises KeyError, after line 192 has run
                          /\ pc' = "raised" /\ err' = "KeyError"
                          /\ UNCHANGED <<rows, df_ccv_unmatched, n_found, n_missed,
                                         n_duplicate, log, df_ccv>>
          ELSE /\ csv2ccv' = Put(csv2ccv, row.ID, IF n = 0 THEN MISSED ELSE DUPL)
               /\ n_missed' = n_missed + (IF n = 0 THEN 1 ELSE 0)
               /\ n_duplicate' = n_duplicate + (IF n >= 2 THEN 1 ELSE 0)
               /\ log' = Append(log, Line("critical",
                                          IF n = 0 THEN MISSED ELSE DUPL, <<>>))
               /\ rows' = Tail(rows)
               /\ UNCHANGED <<pc, err, df_ccv_unmatched, n_found, df_ccv>>
    /\ UNCHANGED <<df_csv, pubtypes, k, orphans, results>>
    /\ UNCHANGED <<callerVars, syncVars, textVars, xmlVars, loadVars, gsVars, parseVars, starVars>>

\* utils.py:219-225: after the last row of the type, list the CCV rows left
\* unmatched and print the counts; the outer loop moves to the next type.
EndKind ==
    /\ pc = "rows"
    /\ rows = <<>>
    /\ LET pubtype == EffectivePubtypes(pubtypes)[k]
       IN /\ orphans' = orphans \o OrphanLines(df_ccv, df_ccv_unmatched, pubtype)
          /\ results' = Append(results,
                 [kind |-> pubtype, found |-> n_found, missed |-> n_missed,
                  duplicate |-> n_duplicate,
                  not_in_gsheet |-> Cardinality(df_ccv_unmatched)])
    /\ k' = k + 1
    /\ pc' = "loop"
    /\ UNCHANGED <<df_csv, df_ccv, pubtypes, rows, csv2ccv, df_ccv_unmatched,
                   n_found, n_missed, n_duplicate, log, err>>
    /\ UNCHANGED <<callerVars, syncVars, textVars, xmlVars, loadVars, gsVars, parseVars, starVars>>

\* utils.py:227: return csv2ccv.
Return ==
    /\ pc = "loop"
    /\ k > Len(EffectivePubtypes(pubtypes))
    /\ pc' = "done"
    /\ UNCHANGED <<df_csv, df_ccv, pubtypes, k, rows, csv2ccv, df_ccv_unmatched,
                   n_found, n_missed, n_duplicate, log, orphans, results, err>>
    /\ UNCHANGED <<callerVars, syncVars, textVars, xmlVars, loadVars, gsVars, parseVars, starVars>>

Next == BeginKind \/ ProcessRow \/ EndKind \/ Return

Spec == Init /\ [][Next]_vars

\* ------------------------------------------------- the same call, repeated
\* The caller keeps what the first call produced and calls find_matching_ref
\* again with the same frame objects and the same pubtypes.
CallAgain ==
    /\ pc \in {"done", "raised"}
    /\ run = 1
    /\ first' = Outcome
    /\ run' = 2
    /\ pc' = "loop"
    /\ k' = 1
    /\ rows' = <<>>
    /\ csv2ccv' = EmptyDict
    /\ df_ccv_unmatched' = {}
    /\ n_found' = 0 /\ n_missed' = 0 /\ n_duplicate' = 0
    /\ log' = <<>>
    /\ orphans' = <<>>
    /\ results' = <<>>
    /\ err' = ""
    /\ UNCHANGED <<df_csv, df_ccv, pubtypes>>
    /\ UNCHANGED <<syncVars, textVars, xmlVars, loadVars, gsVars, parseVars, starVars>>

\* Arguments of the repeated call: article rows, the CCV author list full or
\* shortened, called for articles or without pubtypes.
TwiceArgs ==
    /\ \E a \in SeqsUpTo(RowsOf({"article"}, {FullAuthors}), MaxA) :
           df_csv = CsvFrame(a)
    /\ \E b \in SeqsUpTo(RowsOf({"article"}, {FullAuthors, ShortAuthors}), MaxB) :
           df_ccv = CcvFrame(b)
    /\ pubtypes \in {<<>>, <<"article">>}

InitTwice == TwiceArgs /\ FreshCall /\ FirstCall /\ StarIdle /\ ParseIdle /\ GsIdle /\ LoadIdle /\ XmlIdle /\ SyncIdle /\ TextIdle

NextTwice == BeginKind \/ ProcessRow \/ EndKind \/ Return \/ CallAgain

SpecTwice == InitTwice /\ [][NextTwice]_vars

\* ===================================================================== sync
\* sync(df_csv, fname_xml), utils.py:397-455.  An entry of the Publications
\* section is a record of its label and of the text of the value of three of
\* its fields: the title field and the venue field of its label (field_title,
\* field_venue) and the Authors field.

\* ccvtype2usertype (utils.py:23); "" for a label that is not a key.
UserType(label) ==
    IF label = "Journal Articles" THEN "article"
    ELSE IF label = "Conference Publications" THEN "proceedings"
    ELSE ""

\* reftype in ccvtype2usertype (utils.py:422)
Handled(label) == label \in {"Journal Articles", "Conference Publications"}

\* The entries a CCV export may hold: journal articles, conference
\* publications, and an entry of a label sync does not handle.
Entries ==
    [label : {"Journal Articles"}, Title : Titles,
     Venue : VenuesOf("article"), Authors : {ShortAuthors}]
    \cup [label : {"Conference Publications"}, Title : Titles,
          Venue : VenuesOf("proceedings"), Authors : {ShortAuthors}]
    \cup [label : {"Book Chapters"}, Title : {"Foo"},
          Venue : {"Springer"}, Authors : {ShortAuthors}]

\* A selection that takes the first of several rows when the venue does not
\* single one out.
SyncSelectFirst(df, p) ==
    LET row == SelectSeq(IndexOf(df),
                   LAMBDA i : df[i].Type = UserType(p.label) /\ df[i].Title = p.Title)
    IN IF Len(row) = 0 THEN [out |-> "skip", row |-> <<>>]
       ELSE [out |-> "update", row |-> <<row[1]>>]

\* utils.py:426-442: the rows of df_csv of the type and title of entry p; with
\* more than one, those whose Journal/Conference is the entry's venue.  out is
\* "skip" (continue), "raise" (ValueError) or "update" with the single row.
SyncSelect(df, p) ==
    LET row == SelectSeq(IndexOf(df),
                   LAMBDA i : df[i].Type = UserType(p.label) /\ df[i].Title = p.Title)
        byVenue == SelectSeq(row, LAMBDA i : df[i].JournalConference = p.Venue)
    IN IF Len(row) = 0 THEN [out |-> "skip", row |-> <<>>]
       ELSE IF Len(row) > 1
       THEN IF Len(byVenue) = 1 THEN [out |-> "update", row |-> byVenue]
            ELSE [out |-> "raise", row |-> byVenue]
       ELSE [out |-> "update", row |-> row]

\* An update that copies the authors only.
SyncUpdateAuthorsOnly(p, r) == [p EXCEPT !.Authors = r.Authors]

\* An update that writes the venue into the value of the title field.
SyncUpdateIntoTitle(p, r) ==
    [p EXCEPT !.Authors = r.Authors, !.Title = r.JournalConference]

\* An update that takes the venue from the wrong column of the row.
SyncUpdateWrongColumn(p, r) == [p EXCEPT !.Authors = r.Authors, !.Venue = r.Title]

\* utils.py:445-453: the entry after the authors and the venue of row r have
\* been written into the values of its Authors field and of its venue field.
SyncUpdate(p, r) ==
    [p EXCEPT !.Authors = r.Authors, !.Venue = r.JournalConference]

\* Going on with the next entry after candidates that cannot be told apart.
ContinueOnAmbiguous(i) == [spc |-> "loop", serr |-> "", pos |-> i + 1]

\* utils.py:440: the raise leaves the loop and the function at entry i.
RaiseOnAmbiguous(i) == [spc |-> "raised", serr |-> "ValueError", pos |-> i]

\* A loop body that writes the tree to the file after every entry.
FileWrittenInLoop(file, t) == t

\* utils.py:419-453: nothing in the loop writes to fname_xml.
FileInLoop(file, t) == file

\* utils.py:415-417: parse fname_xml and find the Publications section.
SyncParse ==
    /\ spc = "call"
    /\ tree' = xml_file
    /\ xml_before' = xml_file
    /\ pos' = 1
    /\ spc' = "loop"
    /\ UNCHANGED <<xml_file, serr, calls, first_sync>>
    /\ UNCHANGED <<fmrVars, callerVars, textVars, xmlVars, loadVars, gsVars, parseVars, starVars>>

\* utils.py:419-453: one pass through the body of the loop over the entries.
SyncEntry ==
    /\ spc = "loop"
    /\ pos <= Len(tree)
    /\ LET p == tree[pos]
           sel == SyncSelect(df_csv, p)
       IN IF ~Handled(p.label) \/ sel.out = "skip"
          THEN /\ pos' = pos + 1
               /\ UNCHANGED <<tree, spc, serr>>
          ELSE IF sel.out = "raise"
          THEN /\ spc' = RaiseOnAmbiguous(pos).spc
               /\ serr' = RaiseOnAmbiguous(pos).serr
               /\ pos' = RaiseOnAmbiguous(pos).pos
               /\ UNCHANGED tree
          ELSE /\ tree' = [tree EXCEPT ![pos] = SyncUpdate(p, df_csv[sel.row[1]])]
               /\ pos' = pos + 1
               /\ UNCHANGED <<spc, serr>>
    /\ xml_file' = FileInLoop(xml_file, tree')
    /\ UNCHANGED <<xml_before, calls, first_sync>>
    /\ UNCHANGED <<fmrVars, callerVars, textVars, xmlVars, loadVars, gsVars, parseVars, starVars>>

\* utils.py:455: after the last entry, write the tree to fname_xml.
SyncWrite ==
    /\ spc = "loop"
    /\ pos > Len(tree)
    /\ xml_file' = tree
    /\ spc' = "done"
    /\ UNCHANGED <<xml_before, tree, pos, serr, calls, first_sync>>
    /\ UNCHANGED <<fmrVars, callerVars, textVars, xmlVars, loadVars, gsVars, parseVars, starVars>>

\* The caller keeps how the first call ended and calls sync again with the
\* same df_csv and the same fname_xml.
SyncAgain ==
    /\ spc \in {"done", "raised"}
    /\ calls = 1
    /\ first_sync' = [spc |-> spc, serr |-> serr, file |-> xml_file, tree |-> tree]
    /\ calls' = 2
    /\ spc' = "call"
    /\ serr' = ""
    /\ UNCHANGED <<xml_file, xml_before, tree, pos>>
    /\ UNCHANGED <<fmrVars, callerVars, textVars, xmlVars, loadVars, gsVars, parseVars, starVars>>

\* Frames in which a row occurs twice, beside another row.
TwiceAndAnother ==
    {<<r, r, q>> : r \in RowsOf(Kinds, {FullAuthors}),
                   q \in RowsOf(Kinds, {FullAuthors})}

\* sync is called with a frame of at most MaxA rows, or with a row twice and
\* another row, and a file of at most MaxB entries.
InitSync ==
    /\ \E a \in SeqsUpTo(RowsOf(Kinds, {FullAuthors}), MaxA) \cup TwiceAndAnother :
           df_csv = CsvFrame(a)
    /\ xml_file \in SeqsUpTo(Entries, MaxB)
    /\ xml_before = xml_file
    /\ tree = <<>>
    /\ pos = 0 /\ spc = "call" /\ serr = ""
    /\ calls = 1 /\ first_sync = NoSync
    /\ df_ccv = <<>> /\ pubtypes = <<>>
    /\ FreshCall /\ FirstCall /\ StarIdle /\ ParseIdle /\ GsIdle /\ LoadIdle /\ XmlIdle
    /\ TextIdle

NextSync == SyncParse \/ SyncEntry \/ SyncWrite \/ SyncAgain

SpecSync == InitSync /\ [][NextSync]_vars

\* ====================================================== replace_ref_in_text
\* replace_ref_in_text(df_old, df_new, input_refs), utils.py:350-394, with
\* find_ref_blocks (230-240) and display_replacement (128-147).  A text is a
\* sequence of characters, so that str.split, str.join and str.replace act
\* on it as they do on a Python string.  sort_ref keeps its default, False.

\* Largest number of pieces a line of text is made of.
MaxPieces == 3

\* The position of the first occurrence of pat in txt at or after position
\* from; 0 when there is none.
Find(txt, pat, from) ==
    LET hits == {i \in from..(Len(txt) - Len(pat) + 1) :
                    SubSeq(txt, i, i + Len(pat) - 1) = pat}
    IN IF hits = {} THEN 0 ELSE CHOOSE i \in hits : \A h \in hits : i <= h

RECURSIVE Split(_, _)
\* str.split(sep) for a separator that is not empty.
Split(txt, sep) ==
    LET i == Find(txt, sep, 1)
    IN IF i = 0 THEN <<txt>>
       ELSE <<SubSeq(txt, 1, i - 1)>>
            \o Split(SubSeq(txt, i + Len(sep), Len(txt)), sep)

RECURSIVE Join(_, _)
\* sep.join(list)
Join(list, sep) ==
    IF list = <<>> THEN <<>>
    ELSE IF Len(list) = 1 THEN list[1]
    ELSE list[1] \o sep \o Join(Tail(list), sep)

RECURSIVE Interleave(_, _)
\* txt.replace('', new): new before every character and at the end.
Interleave(txt, new) ==
    IF txt = <<>> THEN new ELSE new \o <<Head(txt)>> \o Interleave(Tail(txt), new)

RECURSIVE Replace(_, _, _)
\* str.replace(old, new): every occurrence of old, from left to right, none
\* overlapping another (utils.py:392).
Replace(txt, old, new) ==
    IF old = <<>> THEN Interleave(txt, new)
    ELSE LET i == Find(txt, old, 1)
         IN IF i = 0 THEN txt
            ELSE SubSeq(txt, 1, i - 1) \o new
                 \o Replace(SubSeq(txt, i + Len(old), Len(txt)), old, new)

\* utils.py:230-240: what follows each '[' up to the next ']'.
find_ref_blocks(txt) ==
    LET txt_splitl == Tail(Split(txt, <<"[">>))
    IN [n \in 1..Len(txt_splitl) |-> Split(txt_splitl[n], <<"]">>)[1]]

\* utils.py:370-379: the ID of the first row of df_new that has the title of
\* a row of df_old with the ID id_old; '?' when there is none.
NewId(old, new, id_old) ==
    LET titles == {old[i].Title : i \in {n \in 1..Len(old) : old[n].ID = id_old}}
        ref_new == SelectSeq(new, LAMBDA r : r.Title \in titles)
    IN IF Len(ref_new) > 0 THEN ref_new[1].ID ELSE <<"?">>

\* utils.py:145: display_replacement takes values[0] of the titles of the
\* rows of df_old with the ID id_old, an IndexError when there is none.
Displayable(old, id_old) == \E i \in 1..Len(old) : old[i].ID = id_old


\* IDs and pieces of text, character by character.
IdJ1 == <<"J", "1">>
IdJ2 == <<"J", "2">>
IdJ3 == <<"J", "3">>
IdJ9 == <<"J", "9">>
IdC5 == <<"C", "5">>
IdC1 == <<"C", "1">>

\* '[' + ', '.join(ids) + ']'
Block(ids) == <<"[">> \o Join(ids, <<",", " ">>) \o <<"]">>

\* What a line is made of: words, an ID outside any block, and blocks of one
\* or two IDs, one of them with an ID df_old does not have.
Pieces ==
    {<<"s", "e", "e", " ">>, <<" ", "a", "n", "d", " ">>, IdJ1,
     Block(<<IdJ1>>), Block(<<IdJ2>>), Block(<<IdJ1, IdJ2>>), Block(<<IdC5>>)}

\* The frame the IDs of the text refer to.
OldFrame == <<[ID |-> IdJ1, Title |-> "Foo"], [ID |-> IdJ2, Title |-> "Bar"]>>

\* The frames the new IDs are taken from: "Foo" renumbered; both titles moved
\* up by one; "Foo" gone; a conference publication titled "Foo" before the
\* article of that title.
NewFrames ==
    {<<[ID |-> IdJ9, Title |-> "Foo"], [ID |-> IdJ2, Title |-> "Bar"]>>,
     <<[ID |-> IdJ2, Title |-> "Foo"], [ID |-> IdJ3, Title |-> "Bar"]>>,
     <<[ID |-> IdJ1, Title |-> "Bar"]>>,
     <<[ID |-> IdC1, Title |-> "Foo"], [ID |-> IdJ1, Title |-> "Foo"],
       [ID |-> IdJ2, Title |-> "Bar"]>>}

\* utils.py:361-363: take the line and find its blocks.
TextBegin ==
    /\ tpc = "call"
    /\ line' = input_refs
    /\ ref_blocks' = find_ref_blocks(input_refs)
    /\ tpc' = "blocks"
    /\ UNCHANGED <<input_refs, df_old, df_new, printed, terr>>
    /\ UNCHANGED <<fmrVars, callerVars, syncVars, xmlVars, loadVars, gsVars, parseVars, starVars>>

\* utils.py:365-392: one pass through the body of the loop over the blocks.
TextBlock ==
    /\ tpc = "blocks"
    /\ ref_blocks # <<>>
    /\ LET ref_block == Head(ref_blocks)
           list_ref_old == Split(ref_block, <<",", " ">>)
           list_ref_new ==
               [n \in 1..Len(list_ref_old) |-> NewId(df_old, df_new, list_ref_old[n])]
           ref_block_new == Join(list_ref_new, <<",", " ">>)
       IN IF \A n \in 1..Len(list_ref_old) : Displayable(df_old, list_ref_old[n])
          THEN /\ line' = Replace(line, ref_block, ref_block_new)
               /\ ref_blocks' = Tail(ref_blocks)
               /\ UNCHANGED <<tpc, terr>>
          ELSE /\ tpc' = "raised"
               /\ terr' = "IndexError"
               /\ UNCHANGED <<line, ref_blocks>>
    /\ UNCHANGED <<input_refs, df_old, df_new, printed>>
    /\ UNCHANGED <<fmrVars, callerVars, syncVars, xmlVars, loadVars, gsVars, parseVars, starVars>>

\* utils.py:393: after the last block, print the line.
TextPrint ==
    /\ tpc = "blocks"
    /\ ref_blocks = <<>>
    /\ printed' = line
    /\ tpc' = "done"
    /\ UNCHANGED <<input_refs, df_old, df_new, line, ref_blocks, terr>>
    /\ UNCHANGED <<fmrVars, callerVars, syncVars, xmlVars, loadVars, gsVars, parseVars, starVars>>

\* replace_ref_in_text is called with a line of at most MaxPieces pieces.
InitText ==
    /\ \E ps \in SeqsUpTo(Pieces, MaxPieces) : input_refs = Join(ps, <<>>)
    /\ df_old = OldFrame
    /\ df_new \in NewFrames
    /\ line = <<>> /\ ref_blocks = <<>> /\ printed = <<>>
    /\ tpc = "call" /\ terr = ""
    /\ df_csv = <<>> /\ df_ccv = <<>> /\ pubtypes = <<>>
    /\ FreshCall /\ FirstCall /\ StarIdle /\ ParseIdle /\ GsIdle /\ LoadIdle /\ XmlIdle /\ SyncIdle

NextText == TextBegin \/ TextBlock \/ TextPrint

SpecText == InitText /\ [][NextText]_vars

\* ================================================================ xml_to_df
\* xml_to_df(xml_path), utils.py:255-297.  The file is a record: whether the
\* path exists, whether the document has the section Contributions/
\* Publications, and the entries of that section.

\* CCV_REF_TYPE (utils.py:21)
CCV_REF_TYPE == <<"Journal Articles", "Conference Publications">>

\* CCVTYPE2PREFIX (utils.py:31)
CCVTYPE2PREFIX(label) == IF label = "Journal Articles" THEN "J" ELSE "C"

\* A counter that numbers the entries whatever their label.
CountAnyLabel(counters, label) == [l \in DOMAIN counters |-> counters[l] + 1]

\* utils.py:280: refcounters[reftype] += 1
CountLabel(counters, label) == [counters EXCEPT ![label] = @ + 1]

\* utils.py:285-291: the record built for entry p with its counter at n.
XmlRecord(p, n) ==
    [ID |-> CCVTYPE2PREFIX(p.label) \o ToString(n),
     Type |-> UserType(p.label),
     Authors |-> p.Authors,
     Title |-> p.Title,
     JournalConference |-> p.Venue]

\* utils.py:262-276: the path is checked, the file parsed, the section looked
\* up and the counters set to zero.  A path that does not exist raises the
\* ValueError of line 263; find() returns None for a missing section and the
\* for statement of line 277 raises TypeError on it.
XmlOpen ==
    /\ xpc = "call"
    /\ IF ~xml_doc.exists
       THEN /\ xpc' = "raised" /\ xerr' = "ValueError"
            /\ UNCHANGED <<refcounters, xpos>>
       ELSE IF ~xml_doc.section
       THEN /\ xpc' = "raised" /\ xerr' = "TypeError"
            /\ refcounters' = [l \in {CCV_REF_TYPE[1], CCV_REF_TYPE[2]} |-> 0]
            /\ UNCHANGED xpos
       ELSE /\ xpc' = "loop" /\ xpos' = 1
            /\ refcounters' = [l \in {CCV_REF_TYPE[1], CCV_REF_TYPE[2]} |-> 0]
            /\ UNCHANGED xerr
    /\ UNCHANGED <<xml_doc, obj_lst, df_xml>>
    /\ UNCHANGED <<fmrVars, callerVars, syncVars, textVars, loadVars, gsVars, parseVars, starVars>>

\* utils.py:277-291: one pass through the body of the loop over the entries.
XmlEntry ==
    /\ xpc = "loop"
    /\ xpos <= Len(xml_doc.entries)
    /\ LET p == xml_doc.entries[xpos]
       IN IF p.label \notin {CCV_REF_TYPE[1], CCV_REF_TYPE[2]}
          THEN UNCHANGED <<refcounters, obj_lst>>
          ELSE /\ refcounters' = CountLabel(refcounters, p.label)
               /\ obj_lst' = Append(obj_lst, XmlRecord(p, refcounters'[p.label]))
    /\ xpos' = xpos + 1
    /\ UNCHANGED <<xml_doc, df_xml, xpc, xerr>>
    /\ UNCHANGED <<fmrVars, callerVars, syncVars, textVars, loadVars, gsVars, parseVars, starVars>>

\* utils.py:293-295: the frame of the records is returned.
XmlReturn ==
    /\ xpc = "loop"
    /\ xpos > Len(xml_doc.entries)
    /\ df_xml' = obj_lst
    /\ xpc' = "done"
    /\ UNCHANGED <<xml_doc, refcounters, obj_lst, xpos, xerr>>
    /\ UNCHANGED <<fmrVars, callerVars, syncVars, textVars, loadVars, gsVars, parseVars, starVars>>

\* The files xml_to_df may be given: a path that does not exist, a document
\* without the section, a document with at most MaxB + 1 entries in it.
Docs ==
    {NoDoc, [exists |-> TRUE, section |-> FALSE, entries |-> <<>>]}
    \cup [exists : {TRUE}, section : {TRUE}, entries : SeqsUpTo(Entries, MaxB + 1)]

InitXml ==
    /\ xml_doc \in Docs
    /\ refcounters = <<>> /\ obj_lst = <<>>
    /\ xpos = 0 /\ df_xml = <<>> /\ xpc = "call" /\ xerr = ""
    /\ df_csv = <<>> /\ df_ccv = <<>> /\ pubtypes = <<>>
    /\ FreshCall /\ FirstCall /\ StarIdle /\ ParseIdle /\ GsIdle /\ LoadIdle /\ SyncIdle /\ TextIdle

NextXml == XmlOpen \/ XmlEntry \/ XmlReturn

SpecXml == InitXml /\ [][NextXml]_vars

\* ========================================== excel_to_df, load_gsheet_contents
\* excel_to_df(excel_source, type_filter), utils.py:458-507, and
\* load_gsheet_contents(pub_types), gsheet.py:49-92, which run the same code
\* on the cached workbook.  A workbook is its sheet names, in order, and the
\* rows of each sheet; a row is its Title, the loader adds Type.

\* A loader that gives every row the name of the first sheet of the workbook.
SetTypeFirstSheet(sub_df, type_id) ==
    [n \in 1..Len(sub_df) |-> [Title |-> sub_df[n].Title, Type |-> "article"]]

\* utils.py:496, gsheet.py:81: sub_df['Type'] = type_id
SetType(sub_df, type_id) ==
    [n \in 1..Len(sub_df) |-> [Title |-> sub_df[n].Title, Type |-> type_id]]

RECURSIVE Concat(_)
\* pd.concat(sub_dfs, ignore_index=True) (utils.py:505, gsheet.py:91)
Concat(dfs) == IF dfs = <<>> THEN <<>> ELSE Head(dfs) \o Concat(Tail(dfs))

\* utils.py:476, gsheet.py:66: no sheet is requested.  excel_to_df accepts
\* None for that, load_gsheet_contents an empty list.
NoneRequested(f) == ~f.given \/ Len(f.names) < 1

\* set(type_filter) - set(excel_source.sheet_names) (utils.py:481, gsheet.py:70)
invalid_types(f, names) == Range(f.names) \ Range(names)

\* utils.py:475-487, gsheet.py:65-76: with no request the sheet names of the
\* workbook are taken; a requested name the workbook does not have raises
\* the ValueError whose message gives the invalid and the valid names.
LoadCheck ==
    /\ lpc = "call"
    /\ IF NoneRequested(type_filter)
       THEN /\ to_read' = excel_source.sheet_names
            /\ lpc' = "loop"
            /\ UNCHANGED lerr
       ELSE IF invalid_types(type_filter, excel_source.sheet_names) # {}
       THEN /\ lpc' = "raised"
            /\ lerr' = [type |-> "ValueError",
                        invalid |-> invalid_types(type_filter, excel_source.sheet_names),
                        valid |-> Range(excel_source.sheet_names)]
            /\ UNCHANGED to_read
       ELSE /\ to_read' = type_filter.names
            /\ lpc' = "loop"
            /\ UNCHANGED lerr
    /\ UNCHANGED <<loader, excel_source, type_filter, sub_dfs, return_df>>
    /\ UNCHANGED <<fmrVars, callerVars, syncVars, textVars, xmlVars, gsVars, parseVars, starVars>>

\* utils.py:491-502, gsheet.py:79-88: read one sheet and set its Type.
LoadSheet ==
    /\ lpc = "loop"
    /\ to_read # <<>>
    /\ LET type_id == Head(to_read)
       IN sub_dfs' = Append(sub_dfs, SetType(excel_source.sheets[type_id], type_id))
    /\ to_read' = Tail(to_read)
    /\ UNCHANGED <<loader, excel_source, type_filter, return_df, lpc, lerr>>
    /\ UNCHANGED <<fmrVars, callerVars, syncVars, textVars, xmlVars, gsVars, parseVars, starVars>>

\* utils.py:505-507, gsheet.py:91-92: stack the frames and return.
LoadConcat ==
    /\ lpc = "loop"
    /\ to_read = <<>>
    /\ return_df' = Concat(sub_dfs)
    /\ lpc' = "done"
    /\ UNCHANGED <<loader, excel_source, type_filter, to_read, sub_dfs, lerr>>
    /\ UNCHANGED <<fmrVars, callerVars, syncVars, textVars, xmlVars, gsVars, parseVars, starVars>>

\* The rows a sheet may hold: at most MaxA rows, each with a title.
SheetRows == SeqsUpTo([Title : Titles], MaxA)

\* Workbooks of one or two sheets.
Workbooks ==
    {[sheet_names |-> names, sheets |-> sh] :
        names \in {<<"article">>, <<"article", "proceedings">>,
                   <<"proceedings", "article">>},
        sh \in [{"article", "proceedings"} -> SheetRows]}

\* What may be requested: nothing, sheets of the workbook (one of them
\* twice), a sheet no workbook has.
TypeFilters ==
    {<<>>, <<"article">>, <<"proceedings", "article">>, <<"article", "article">>,
     <<"talk">>, <<"article", "talk">>}

InitLoad ==
    /\ loader \in {"excel_to_df", "load_gsheet_contents"}
    /\ excel_source \in Workbooks
    /\ type_filter \in [given : {TRUE}, names : TypeFilters]
                         \cup (IF loader = "excel_to_df" THEN {NotGiven} ELSE {})
    /\ to_read = <<>> /\ sub_dfs = <<>> /\ return_df = <<>>
    /\ lpc = "call" /\ lerr = NoError
    /\ df_csv = <<>> /\ df_ccv = <<>> /\ pubtypes = <<>>
    /\ FreshCall /\ FirstCall /\ StarIdle /\ ParseIdle /\ GsIdle /\ SyncIdle /\ TextIdle /\ XmlIdle

NextLoad == LoadCheck \/ LoadSheet \/ LoadConcat

SpecLoad == InitLoad /\ [][NextLoad]_vars

\* ================================================ gsheet_to_df, check_labels
\* gsheet_to_df(args), gsheet.py:127-164, with _dropna_if_field_exists
\* (21-31) and check_labels (95-124).  A frame is its set of columns and its
\* rows; a row maps a column to a cell; a cell is either NaN (na) or a value:
\* a string, a number in Year, a sequence of characters in Labels.

AllColumns ==
    {"ID", "Title", "Year", "Journal/Conference", "Authors", "Labels", "Selected",
     "Authorized"}

\* The empty string, as a value of the column.
EmptyOf(col) == IF col = "Labels" THEN <<>> ELSE ""

Val(x) == [na |-> FALSE, v |-> x]
NaN(col) == [na |-> TRUE, v |-> IF col = "Year" THEN 0 ELSE EmptyOf(col)]

\* The cell holds the string ''.
IsEmptyString(col, cell) == ~cell.na /\ col # "Year" /\ cell.v = EmptyOf(col)

\* gsheet.py:139: df.replace('', np.nan, regex=True); an empty pattern makes
\* pandas compare the cells with '' itself.
EmptyToNaN(df) ==
    [df EXCEPT !.rows =
        [n \in 1..Len(df.rows) |->
            [c \in AllColumns |->
                IF c \in df.columns /\ IsEmptyString(c, df.rows[n][c])
                THEN NaN(c) ELSE df.rows[n][c]]]]

\* gsheet.py:143: df.replace(np.nan, '', regex=True)
NaNToEmpty(df) ==
    [df EXCEPT !.rows =
        [n \in 1..Len(df.rows) |->
            [c \in AllColumns |->
                IF c \in df.columns /\ df.rows[n][c].na
                THEN Val(EmptyOf(c)) ELSE df.rows[n][c]]]]

\* Fields that would drop the rows without authors as well.
RequiredAndAuthors == <<"Title", "Year", "Journal/Conference", "Authors">>

\* gsheet.py:140: the fields a row must have.
RequiredFields == <<"Title", "Year", "Journal/Conference">>

RECURSIVE dropna_if_field_exists(_, _)
\* gsheet.py:21-31: for each field that is a column, drop the rows with NaN
\* in it.
dropna_if_field_exists(df, fields) ==
    IF fields = <<>> THEN df
    ELSE LET field == Head(fields)
             kept == IF field \in df.columns
                     THEN [df EXCEPT !.rows =
                              SelectSeq(df.rows, LAMBDA r : ~r[field].na)]
                     ELSE df
         IN dropna_if_field_exists(kept, Tail(fields))


\* The characters str.strip() removes.
Whitespace == {" ", "\n"}

RECURSIVE Strip(_)
\* str.strip()
Strip(txt) ==
    IF txt = <<>> THEN txt
    ELSE IF Head(txt) \in Whitespace THEN Strip(Tail(txt))
    ELSE IF txt[Len(txt)] \in Whitespace THEN Strip(SubSeq(txt, 1, Len(txt) - 1))
    ELSE txt

\* gsheet.py:103-104: the lines of the file, stripped.
authorized_labels(lines) == [n \in 1..Len(lines) |-> Strip(lines[n])]

\* A test that does not strip the label.
is_authorized_unstripped(label, lines) == label \in Range(authorized_labels(lines))

\* gsheet.py:107-108
is_authorized(label, lines) == Strip(label) \in Range(authorized_labels(lines))

\* gsheet.py:113: every label of the cell, split at ',', is authorized.
authorized_mask(x, lines) ==
    \A n \in 1..Len(Split(x, <<",">>)) : is_authorized(Split(x, <<",">>)[n], lines)

\* gsheet.py:116-120: the ID of an unauthorized row and its labels that are
\* not authorized, stripped and joined by ', '.
unauthorized_df(df, lines) ==
    LET bad == SelectSeq(df.rows, LAMBDA r : ~authorized_mask(r["Labels"].v, lines))
        Invalid(x) ==
            Join([m \in 1..Len(SelectSeq(Split(x, <<",">>),
                                         LAMBDA l : ~is_authorized(l, lines))) |->
                     Strip(SelectSeq(Split(x, <<",">>),
                                     LAMBDA l : ~is_authorized(l, lines))[m])],
                 <<",", " ">>)
    IN [n \in 1..Len(bad) |->
           [ID |-> bad[n]["ID"].v, InvalidLabels |-> Invalid(bad[n]["Labels"].v)]]

\* gsheet.py:95-124: "raise" with the rows shown, or the frame as it is left
\* (with a column Authorized of False when it has no column Labels).
check_labels(df, lines) ==
    IF "Labels" \in df.columns
    THEN IF unauthorized_df(df, lines) # <<>>
         THEN [out |-> "raise", shown |-> unauthorized_df(df, lines), df |-> df]
         ELSE [out |-> "pass", shown |-> <<>>, df |-> df]
    ELSE [out |-> "pass", shown |-> <<>>,
          df |-> [columns |-> df.columns \cup {"Authorized"},
                  rows |-> [n \in 1..Len(df.rows) |->
                               [df.rows[n] EXCEPT !["Authorized"] = Val(FALSE)]]]]

\* df.iloc[::-1]
Reverse(sq) == [n \in 1..Len(sq) |-> sq[Len(sq) + 1 - n]]

\* gsheet.py:133-143: load the sheets, turn '' into NaN, drop the rows with
\* NaN in a required field, turn NaN into ''.
GsClean ==
    /\ gpc = "call"
    /\ gs_df' = NaNToEmpty(dropna_if_field_exists(EmptyToNaN(loaded), RequiredFields))
    /\ df_clean' = gs_df'
    /\ gpc' = "cleaned"
    /\ UNCHANGED <<args, loaded, label_file, gerr>>
    /\ UNCHANGED <<fmrVars, callerVars, syncVars, textVars, xmlVars, loadVars, parseVars, starVars>>

\* gsheet.py:146-147: check the labels when asked to.
GsCheckLabels ==
    /\ gpc = "cleaned"
    /\ IF args.check_labels
       THEN LET res == check_labels(gs_df, label_file)
            IN IF res.out = "raise"
               THEN /\ gpc' = "raised"
                    /\ gerr' = [type |-> "ValueError", shown |-> res.shown]
                    /\ UNCHANGED gs_df
               ELSE /\ gpc' = "checked"
                    /\ gs_df' = res.df
                    /\ UNCHANGED gerr
       ELSE /\ gpc' = "checked"
            /\ UNCHANGED <<gs_df, gerr>>
    /\ UNCHANGED <<args, loaded, label_file, df_clean>>
    /\ UNCHANGED <<fmrVars, callerVars, syncVars, textVars, xmlVars, loadVars, parseVars, starVars>>

\* gsheet.py:150-164: Year as int (an AttributeError without the column),
\* the filter on a tag, the filter on the year, the reversal, the return.
GsFinish ==
    /\ gpc = "checked"
    /\ IF "Year" \notin gs_df.columns
       THEN /\ gpc' = "raised"
            /\ gerr' = [type |-> "AttributeError", shown |-> <<>>]
            /\ UNCHANGED gs_df
       ELSE LET tagged == IF args.filter # ""
                          THEN SelectSeq(gs_df.rows, LAMBDA r : r[args.filter].v = "x")
                          ELSE gs_df.rows
                recent == IF args.min_year # 0
                          THEN SelectSeq(tagged, LAMBDA r : r["Year"].v >= args.min_year)
                          ELSE tagged
            IN /\ gs_df' = [gs_df EXCEPT !.rows =
                               IF args.reverse THEN Reverse(recent) ELSE recent]
               /\ gpc' = "done"
               /\ UNCHANGED gerr
    /\ UNCHANGED <<args, loaded, label_file, df_clean>>
    /\ UNCHANGED <<fmrVars, callerVars, syncVars, textVars, xmlVars, loadVars, parseVars, starVars>>


\* A row of the sheet, cell by cell.
GsRow(id, title, year, venue, authors, labels, selected) ==
    [c \in AllColumns |->
        CASE c = "ID" -> Val(id)
          [] c = "Title" -> title
          [] c = "Year" -> year
          [] c = "Journal/Conference" -> venue
          [] c = "Authors" -> authors
          [] c = "Labels" -> labels
          [] c = "Selected" -> selected
          [] OTHER -> NaN(c)]

\* The rows a sheet may hold: complete rows; rows without a title (''), a
\* year or a venue (empty cells, read as NaN); rows without authors; rows
\* whose labels are authorized, are not, need stripping, or are missing.
GsRows ==
    {GsRow("g1", Val("Foo"), Val(2021), Val("Nature"), Val(FullAuthors),
           Val(<<"a">>), Val("x")),
     GsRow("g2", Val(""), Val(2021), Val("Nature"), Val(FullAuthors),
           Val(<<"a">>), Val("x")),
     GsRow("g3", Val("Foo"), NaN("Year"), Val("Nature"), Val(FullAuthors),
           Val(<<"z">>), Val("x")),
     GsRow("g4", Val("Foo"), Val(2019), NaN("Journal/Conference"), Val(FullAuthors),
           Val(<<"a">>), Val("")),
     GsRow("g5", Val("Bar"), Val(2019), Val("Science"), NaN("Authors"),
           Val(<<"a", ",", " ", "z">>), Val("")),
     GsRow("g6", Val("Bar"), Val(2021), Val("Science"), Val(""),
           Val(<<" ", "b", " ", ",", "a">>), NaN("Selected")),
     GsRow("g7", Val("Foo"), Val(2019), Val("Nature"), Val(FullAuthors),
           NaN("Labels"), Val("x"))}

\* The columns a sheet may have: all of them, or all but one.
GsColumns ==
    LET sheet == AllColumns \ {"Authorized"}
    IN {sheet, sheet \ {"Title"}, sheet \ {"Year"}, sheet \ {"Labels"}}

\* The files of authorized labels: one label on each line.
LabelFiles == {<<<<"a", "\n">>, <<"b", "\n">>>>, <<<<"a", "\n">>, <<"\n">>>>}

InitGs ==
    /\ args \in [check_labels : BOOLEAN, filter : {"", "Selected"},
                 min_year : {0, 2020}, reverse : BOOLEAN]
    /\ loaded \in [columns : GsColumns, rows : SeqsUpTo(GsRows, MaxA)]
    /\ label_file \in LabelFiles
    /\ df_clean = NoFrame /\ gs_df = NoFrame
    /\ gpc = "call" /\ gerr = NoGsError
    /\ df_csv = <<>> /\ df_ccv = <<>> /\ pubtypes = <<>>
    /\ FreshCall /\ FirstCall /\ StarIdle /\ ParseIdle /\ SyncIdle /\ TextIdle /\ XmlIdle /\ LoadIdle

NextGs == GsClean \/ GsCheckLabels \/ GsFinish

SpecGs == InitGs /\ [][NextGs]_vars


\* =========================================================== parse_num_list
\* parse_num_list(str_num), utils.py:315-347.  The string is a sequence of
\* characters.

Digits == {"0", "1", "2", "3", "4", "5", "6", "7", "8", "9"}

DigitValue(c) ==
    CASE c = "0" -> 0 [] c = "1" -> 1 [] c = "2" -> 2 [] c = "3" -> 3 [] c = "4" -> 4
      [] c = "5" -> 5 [] c = "6" -> 6 [] c = "7" -> 7 [] c = "8" -> 8 [] c = "9" -> 9

RECURSIVE int(_)
\* int() of a string of digits
int(txt) ==
    IF txt = <<>> THEN 0
    ELSE 10 * int(SubSeq(txt, 1, Len(txt) - 1)) + DigitValue(txt[Len(txt)])

\* re.match(r"^\d+$", element) (utils.py:335)
IsNumber(element) ==
    element # <<>> /\ \A n \in 1..Len(element) : element[n] \in Digits

\* re.match(r"^(?P<first>\d+):(?P<last>\d+)$", element) (utils.py:341)
IsRange(element) ==
    LET parts == Split(element, <<":">>)
    IN Len(parts) = 2 /\ IsNumber(parts[1]) /\ IsNumber(parts[2])

\* An append that does not look whether the value is there already.
AddNumberAgain(list, val) == Append(list, val)

\* utils.py:337-339: append val unless it is in the list.
AddNumber(list, val) ==
    IF \E n \in 1..Len(list) : list[n] = val THEN list ELSE Append(list, val)

\* utils.py:343-345: the numbers of range(a, b + 1) that are not in the list
\* when the statement begins, added in ascending order.
AddRange(list, a, b) ==
    LET new == SelectSeq([n \in 1..(IF b >= a THEN b - a + 1 ELSE 0) |-> a + n - 1],
                         LAMBDA x : \A n \in 1..Len(list) : list[n] # x)
    IN list \o new

\* utils.py:328-333: an empty string returns the empty list at once;
\* otherwise the string is split at ','.
ParseSplit ==
    /\ ppc = "call"
    /\ IF str_num = <<>>
       THEN /\ ppc' = "done"
            /\ UNCHANGED elements
       ELSE /\ elements' = Split(str_num, <<",">>)
            /\ ppc' = "loop"
    /\ UNCHANGED <<str_num, list_num, perr>>
    /\ UNCHANGED <<fmrVars, callerVars, syncVars, textVars, xmlVars, loadVars, gsVars, starVars>>

\* utils.py:334-345: one pass through the body of the loop over the elements.
ParseElement ==
    /\ ppc = "loop"
    /\ elements # <<>>
    /\ LET element == Head(elements)
       IN IF IsNumber(element)
          THEN /\ list_num' = AddNumber(list_num, int(element))
               /\ elements' = Tail(elements)
               /\ UNCHANGED <<ppc, perr>>
          ELSE IF IsRange(element)
          THEN /\ list_num' = AddRange(list_num,
                                       int(Split(element, <<":">>)[1]),
                                       int(Split(element, <<":">>)[2]))
               /\ elements' = Tail(elements)
               /\ UNCHANGED <<ppc, perr>>
          ELSE /\ ppc' = "raised"
               /\ perr' = "ValueError"
               /\ UNCHANGED <<list_num, elements>>
    /\ UNCHANGED str_num
    /\ UNCHANGED <<fmrVars, callerVars, syncVars, textVars, xmlVars, loadVars, gsVars, starVars>>

\* utils.py:347
ParseReturn ==
    /\ ppc = "loop"
    /\ elements = <<>>
    /\ ppc' = "done"
    /\ UNCHANGED <<str_num, elements, list_num, perr>>
    /\ UNCHANGED <<fmrVars, callerVars, syncVars, textVars, xmlVars, loadVars, gsVars, starVars>>

\* What stands between the commas of the strings given: numbers, ranges (one
\* of them descending), and elements that are neither.
ElementTexts ==
    {<<"1">>, <<"2">>, <<"0", "3">>, <<"1", ":", "3">>, <<"1", ":", "4">>,
     <<"3", ":", "1">>, <<>>, <<"x">>, <<"1", ":">>}

InitParse ==
    /\ \E es \in SeqsUpTo(ElementTexts, MaxPieces) : str_num = Join(es, <<",">>)
    /\ elements = <<>> /\ list_num = <<>>
    /\ ppc = "call" /\ perr = ""
    /\ df_csv = <<>> /\ df_ccv = <<>> /\ pubtypes = <<>>
    /\ FreshCall /\ FirstCall /\ StarIdle /\ SyncIdle /\ TextIdle /\ XmlIdle /\ LoadIdle /\ GsIdle

NextParse == ParseSplit \/ ParseElement \/ ParseReturn

SpecParse == InitParse /\ [][NextParse]_vars


\* ================================================== student_asterisk_helper
\* scripts/student_asterisk_helper.py.  The document is the sequence of its
\* field elements in document order; a field is its label and its value
\* element: absent, without text (None), or with a text.

\* bibeasy.formatting.STUDENTS (formatting.py:14), here two names.
STUDENTS == {<<"A">>, <<"B">>}

NoValue == [kind |-> "absent", text |-> <<>>]
NoText == [kind |-> "none", text |-> <<>>]
Text(t) == [kind |-> "text", text |-> t]

\* student_asterisk_helper.py:34-49: split at ',', strip, remove '*', append
\* '*' to the names of STUDENTS, join with ', '.
update_author_list(value) ==
    IF value.kind # "text" THEN value
    ELSE LET names == Split(value.text, <<",">>)
             students == [n \in 1..Len(names) |->
                             Replace(Strip(names[n]), <<"*">>, <<>>)]
         IN Text(Join([n \in 1..Len(students) |->
                          IF students[n] \in STUDENTS
                          THEN students[n] \o <<"*">> ELSE students[n]],
                      <<",", " ">>))

RECURSIVE IterFrom(_, _)
\* tree.iter(): document order, every field before the value element in it.
IterFrom(doc, i) ==
    IF i > Len(doc) THEN <<>>
    ELSE <<[tag |-> "field", at |-> i]>>
         \o (IF doc[i].value.kind = "absent" THEN <<>>
             ELSE <<[tag |-> "value", at |-> i]>>)
         \o IterFrom(doc, i + 1)

\* student_asterisk_helper.py:57-73: one pass through the body of the loop.
\* A value element is remembered; at a field labelled Authors or Editors the
\* element remembered is updated, a NameError when none has been seen.
StarVisit ==
    /\ apc = "iter"
    /\ to_visit # <<>>
    /\ LET elem == Head(to_visit)
       IN IF elem.tag = "value"
          THEN /\ elem_cache' = elem.at
               /\ to_visit' = Tail(to_visit)
               /\ UNCHANGED <<ast_tree, apc, aerr>>
          ELSE IF ast_tree[elem.at].label \notin {"Authors", "Editors"}
          THEN /\ to_visit' = Tail(to_visit)
               /\ UNCHANGED <<ast_tree, elem_cache, apc, aerr>>
          ELSE IF elem_cache = 0
          THEN /\ apc' = "raised"
               /\ aerr' = "NameError"
               /\ UNCHANGED <<ast_tree, elem_cache, to_visit>>
          ELSE /\ ast_tree' = [ast_tree EXCEPT ![elem_cache].value =
                                  update_author_list(@)]
               /\ to_visit' = Tail(to_visit)
               /\ UNCHANGED <<elem_cache, apc, aerr>>
    /\ UNCHANGED <<input_xml, output_xml>>
    /\ UNCHANGED <<fmrVars, callerVars, syncVars, textVars, xmlVars, loadVars, gsVars,
                   parseVars>>

\* student_asterisk_helper.py:77-79: the tree is written to output_xml.
StarWrite ==
    /\ apc = "iter"
    /\ to_visit = <<>>
    /\ output_xml' = ast_tree
    /\ apc' = "done"
    /\ UNCHANGED <<input_xml, ast_tree, elem_cache, to_visit, aerr>>
    /\ UNCHANGED <<fmrVars, callerVars, syncVars, textVars, xmlVars, loadVars, gsVars,
                   parseVars>>

\* The fields a document may hold: three labels, and values with a student
\* and another name, with an asterisk already there, without a student,
\* without text, or no value element.
StarFields ==
    [label : {"Authors", "Editors", "Title"},
     value : {Text(<<"A", ",", " ", "C">>), Text(<<"C", "*", ",", "B">>),
              Text(<<"C">>), NoText, NoValue}]

\* student_asterisk_helper.py:23-31: the input is parsed; the document has at
\* most MaxB fields.
InitStar ==
    /\ input_xml \in SeqsUpTo(StarFields, MaxB)
    /\ ast_tree = input_xml
    /\ elem_cache = 0
    /\ to_visit = IterFrom(input_xml, 1)
    /\ output_xml = <<>> /\ apc = "iter" /\ aerr = ""
    /\ df_csv = <<>> /\ df_ccv = <<>> /\ pubtypes = <<>>
    /\ FreshCall /\ FirstCall /\ SyncIdle /\ TextIdle /\ XmlIdle /\ LoadIdle
    /\ GsIdle /\ ParseIdle

NextStar == StarVisit \/ StarWrite

SpecStar == InitStar /\ [][NextStar]_vars

\* ------------------------------------------------------------- vocabulary
\* The types the call processes.
Requested == Range(EffectivePubtypes(pubtypes))

\* The call has ended: it returned or an exception left it.
Terminal == pc \in {"done", "raised"}

IdxA == 1..Len(df_csv)
IdxB == 1..Len(df_ccv)

\* The row lines logged for spreadsheet row i.
LinesOf(i) == {n \in 1..Len(log) : log[n].gsheet = df_csv[i].ID}

\* Row i was logged with the outcome val (a CCV ID or a sentinel).
Classified(i, val) == \E n \in LinesOf(i) : log[n].ccv = val

\* The loop body has run for row i: it logged the row, or it raised on it.
Attempted(i) ==
    \/ LinesOf(i) # {}
    \/ pc = "raised" /\ rows # <<>> /\ Head(rows) = i

\* CCV rows of the kind and title of spreadsheet row i; those of its venue too.
SameTitle(i) ==
    {j \in IdxB : df_ccv[j].Type = df_csv[i].Type /\ df_ccv[j].Title = df_csv[i].Title}
SameVenue(i) ==
    {j \in SameTitle(i) : df_ccv[j].JournalConference = df_csv[i].JournalConference}

\* The CCV IDs that are values of the mapping.
MatchedIds == {df_ccv[j].ID : j \in IdxB}

\* ------------------------------------------------------------------ claims
\* C1: no CCV record id is the mapping value of two different spreadsheet
\* records; a CCV record that has been matched cannot be matched again.
C1_AtMostOneConsumer ==
    \A x \in DOMAIN csv2ccv : \A y \in DOMAIN csv2ccv :
        (x # y /\ csv2ccv[x] = csv2ccv[y]) => csv2ccv[x] \notin MatchedIds

\* The frames of the scenario of C2: two article rows titled "Foo", venues
\* "Nature" then "Science", against one article row titled "Foo" in "Nature".
C2_Scenario ==
    /\ Len(df_csv) = 2 /\ Len(df_ccv) = 1
    /\ \A i \in IdxA : df_csv[i].Type = "article" /\ df_csv[i].Title = "Foo"
    /\ df_csv[1].JournalConference = "Nature"
    /\ df_csv[2].JournalConference = "Science"
    /\ df_ccv[1].Type = "article" /\ df_ccv[1].Title = "Foo"
    /\ df_ccv[1].JournalConference = "Nature"
    /\ "article" \in Requested

\* C2: candidates are searched among the CCV records not matched yet: in the
\* scenario above the call ends with the "Nature" row matched to J1 and the
\* "Science" row classified missing.
C2_SecondFooIsMissing ==
    (C2_Scenario /\ Terminal) =>
        /\ pc = "done"
        /\ Classified(1, "J1")
        /\ Classified(2, MISSED)

\* C3: the call never raises, whatever titles and venues repeat inside the
\* spreadsheet frame or inside the CCV frame.
C3_NeverRaises == pc # "raised"

\* C4: a spreadsheet row with two or more same-kind same-title CCV candidates
\* of which exactly one has the row's venue is classified matched to that
\* candidate, and the candidate is consumed.
C4_VenueDisambiguates ==
    \A i \in IdxA : \A j \in IdxB :
        (Cardinality(SameTitle(i)) >= 2 /\ SameVenue(i) = {j} /\ Attempted(i)) =>
            /\ Classified(i, df_ccv[j].ID)
            /\ (pc = "rows" /\ EffectivePubtypes(pubtypes)[k] = df_csv[i].Type)
                   => j \notin df_ccv_unmatched

\* C5: a spreadsheet row with two or more same-kind same-title CCV candidates
\* of which none or at least two have the row's venue is classified ambiguous
\* ('dupl'), and none of the candidates is consumed or picked.
C5_UnresolvedIsAmbiguous ==
    \A i \in IdxA :
        (Cardinality(SameTitle(i)) >= 2 /\ Cardinality(SameVenue(i)) # 1
            /\ Attempted(i)) =>
            /\ Classified(i, DUPL)
            /\ (pc = "rows" /\ EffectivePubtypes(pubtypes)[k] = df_csv[i].Type)
                   => SameTitle(i) \subseteq df_ccv_unmatched

\* Same kind, title and venue.
Counterpart(a, b) ==
    /\ a.Type = b.Type /\ a.Title = b.Title
    /\ a.JournalConference = b.JournalConference

\* Every spreadsheet record has exactly one counterpart in the CCV frame, the
\* CCV frame has no other record (every CCV record is the counterpart of
\* exactly one spreadsheet record), and the spreadsheet's kinds are requested.
C6_OneToOne ==
    /\ \A i \in IdxA :
           /\ Cardinality({j \in IdxB : Counterpart(df_csv[i], df_ccv[j])}) = 1
           /\ df_csv[i].Type \in Requested
    /\ \A j \in IdxB :
           Cardinality({i \in IdxA : Counterpart(df_csv[i], df_ccv[j])}) = 1

\* C6: on frames in one-to-one correspondence (records sharing a title and
\* differing by venue included) the call returns a mapping that sends every
\* spreadsheet record to its counterpart, with nothing missing, ambiguous or
\* orphaned.
C6_OneToOneAllMatched ==
    (C6_OneToOne /\ Terminal) =>
        /\ pc = "done"
        /\ DOMAIN csv2ccv = {df_csv[i].ID : i \in IdxA}
        /\ \A i \in IdxA : \A j \in IdxB :
               Counterpart(df_csv[i], df_ccv[j]) => csv2ccv[df_csv[i].ID] = df_ccv[j].ID
        /\ orphans = <<>>
        /\ \A n \in 1..Len(results) :
               results[n].missed = 0 /\ results[n].duplicate = 0
                   /\ results[n].not_in_gsheet = 0

\* No title occurs in both frames.
NoSharedTitle ==
    \A i \in IdxA : \A j \in IdxB : df_csv[i].Title # df_ccv[j].Title

\* C7: when the frames share no title the call does not raise, every
\* spreadsheet record of a requested kind is classified missing ('missed'),
\* every CCV record of a requested kind is reported as left unmatched, and no
\* entry of the mapping is a match.
C7_NoSharedTitleAllMissed ==
    NoSharedTitle =>
        /\ pc # "raised"
        /\ \A n \in 1..Len(log) : log[n].ccv = MISSED /\ log[n].level = "critical"
        /\ \A x \in DOMAIN csv2ccv : csv2ccv[x] = MISSED
        /\ pc = "done" =>
               /\ \A i \in IdxA : df_csv[i].Type \in Requested => Classified(i, MISSED)
               /\ {orphans[n].ccv : n \in 1..Len(orphans)}
                      = {df_ccv[j].ID : j \in {x \in IdxB : df_ccv[x].Type \in Requested}}
               /\ \A n \in 1..Len(results) : results[n].found = 0

\* Witness of C7: a call on frames without a shared title has returned after
\* classifying a spreadsheet record and reporting a CCV record.
C7_Witness ==
    /\ pc = "done" /\ NoSharedTitle
    /\ log # <<>> /\ orphans # <<>>
    /\ \E x \in DOMAIN csv2ccv : csv2ccv[x] = MISSED

\* C8: the returned mapping holds exactly one entry for every spreadsheet
\* record of every requested kind, whose value is a CCV record id, 'missed'
\* or 'dupl'; the entries of one kind survive the processing of another.
C8_EntryForEveryRequestedRecord ==
    pc = "done" =>
        /\ DOMAIN csv2ccv = {df_csv[i].ID : i \in {x \in IdxA : df_csv[x].Type \in Requested}}
        /\ \A x \in DOMAIN csv2ccv : csv2ccv[x] \in MatchedIds \cup {MISSED, DUPL}

\* C9: once the rows of a kind have all been processed, the CCV records
\* reported as left unmatched are exactly the CCV records of that kind that
\* no row line reports as a match, each reported once.
C9_OrphansAreTheUnconsumed ==
    \A n \in 1..Len(results) :
        LET t == results[n].kind
            consumed == {log[m].ccv : m \in {x \in 1..Len(log) :
                                           log[x].kind = t /\ log[x].level = "info"}}
            lines == {m \in 1..Len(orphans) : orphans[m].kind = t}
            ofKind == {df_ccv[j].ID : j \in {x \in IdxB : df_ccv[x].Type = t}}
        IN /\ {orphans[m].ccv : m \in lines} = ofKind \ consumed
           /\ Cardinality(lines) = Cardinality(ofKind \ consumed)
           /\ results[n].not_in_gsheet = Cardinality(lines)

\* Witness of C9: the call has returned, and for one kind a CCV record was
\* matched while another CCV record of that kind was reported unmatched.
C9_Witness ==
    /\ pc = "done"
    /\ \E n \in 1..Len(log) : \E m \in 1..Len(orphans) :
           log[n].level = "info" /\ log[n].kind = orphans[m].kind

\* The rows a matched line names.
CsvRowOf(ln) == CHOOSE r \in Range(df_csv) : r.ID = ln.gsheet
CcvRowOf(ln) == CHOOSE r \in Range(df_ccv) : r.ID = ln.ccv

\* C10: the mismatch warning of a matched pair names exactly the fields among
\* Authors and Journal/Conference whose values differ between the two
\* records; with or without a warning the pair is logged as a match of the
\* same kind and title and the mapping entry is the CCV record's id.
C10_MismatchIsTheDifferingFields ==
    \A n \in 1..Len(log) :
        IF log[n].level = "info"
        THEN LET a == CsvRowOf(log[n])
                 b == CcvRowOf(log[n])
             IN /\ Range(log[n].mismatch)
                       = (IF a.Authors # b.Authors THEN {"Authors"} ELSE {})
                         \cup (IF a.JournalConference # b.JournalConference
                               THEN {"Journal/Conference"} ELSE {})
                /\ a.Type = b.Type /\ a.Title = b.Title
                /\ a.ID \in DOMAIN csv2ccv => csv2ccv[a.ID] = b.ID
        ELSE log[n].mismatch = <<>>

\* Witness of C10: csv1 and J1 agree on title and venue and differ in their
\* authors; the call returned csv1 -> J1 and warned about Authors only.
C10_Witness ==
    /\ pc = "done"
    /\ "csv1" \in DOMAIN csv2ccv /\ csv2ccv["csv1"] = "J1"
    /\ \E n \in 1..Len(log) :
           /\ log[n].gsheet = "csv1" /\ log[n].ccv = "J1"
           /\ log[n].mismatch = <<"Authors">>

\* C11: the call leaves both frames as they were passed, and a second call on
\* the same arguments ends like the first one, with the same mapping, the same
\* row lines and mismatch warnings, the same list of unmatched CCV records and
\* the same counts.
C11_RepeatableAndReadOnly ==
    /\ [][df_csv' = df_csv /\ df_ccv' = df_ccv]_vars
    /\ []((run = 2 /\ pc \in {"done", "raised"}) => Outcome = first)

\* Witness of C11: a second call has returned after the first one matched a
\* record (and so dropped a row), reported an unmatched one and a mismatch.
C11_Witness ==
    /\ run = 2 /\ pc = "done"
    /\ \E n \in 1..Len(first.log) : first.log[n].mismatch # <<>>
    /\ first.orphans # <<>>

\* C12: the call raises when a requested type is outside the vocabulary, and
\* in no other case.
C12_RaisesExactlyOnUnknownKind ==
    pc \in {"done", "raised"} =>
        (pc = "raised" <=> \E t \in Requested : t \notin Vocabulary)

\* ------------------------------------------------------------ sync: claims
\* The rows of df_csv of the kind and title of entry p.
SameKindTitle(p) ==
    {i \in IdxA : df_csv[i].Type = UserType(p.label) /\ df_csv[i].Title = p.Title}

\* The rows that match entry p: the only row of its kind and title, or, when
\* several share the title, those of them with the entry's venue.
MatchesOf(p) ==
    IF Cardinality(SameKindTitle(p)) > 1
    THEN {i \in SameKindTitle(p) : df_csv[i].JournalConference = p.Venue}
    ELSE SameKindTitle(p)

\* Entry i, as it was when the call began, has exactly one matching row.
UniqueMatch(i) ==
    /\ Handled(xml_before[i].label)
    /\ Cardinality(MatchesOf(xml_before[i])) = 1

\* Entry i has several rows of its kind and title and its venue does not
\* leave exactly one.
Unresolvable(i) ==
    /\ Handled(xml_before[i].label)
    /\ Cardinality(SameKindTitle(xml_before[i])) > 1
    /\ Cardinality(MatchesOf(xml_before[i])) # 1

\* The loop has gone past entry i.
Passed(i) == spc \in {"loop", "done", "raised"} /\ i < pos

SyncRunning == spc \in {"loop", "done", "raised"}

\* C13: every entry of a recognised kind with exactly one matching source
\* record has, once the loop has passed it, that record's Authors and
\* Journal/Conference in its Authors and venue values, in the tree and, when
\* the call has returned, in the file.
C13_UniqueMatchIsCopied ==
    SyncRunning =>
        \A i \in 1..Len(xml_before) :
            (Passed(i) /\ UniqueMatch(i)) =>
                LET r == df_csv[CHOOSE j \in MatchesOf(xml_before[i]) : TRUE]
                IN /\ tree[i].Authors = r.Authors
                   /\ tree[i].Venue = r.JournalConference
                   /\ spc = "done" =>
                        /\ xml_file[i].Authors = r.Authors
                        /\ xml_file[i].Venue = r.JournalConference

\* A returned call that wrote other authors and another venue into an entry
\* with exactly one matching row.
C13_Witness ==
    /\ spc = "done"
    /\ \E i \in 1..Len(xml_before) :
          /\ UniqueMatch(i)
          /\ xml_file[i].Venue # xml_before[i].Venue
          /\ xml_file[i].Authors # xml_before[i].Authors

\* C14: sync creates and deletes no entry, and leaves as they were the
\* entries of an unrecognised kind, the entries without a source record of
\* their kind and title, and the label and the title of every entry.
C14_OnlyAuthorsAndVenueChange ==
    SyncRunning =>
        /\ Len(tree) = Len(xml_before)
        /\ Len(xml_file) = Len(xml_before)
        /\ \A i \in 1..Len(xml_before) :
              /\ tree[i].label = xml_before[i].label
              /\ tree[i].Title = xml_before[i].Title
              /\ xml_file[i].label = xml_before[i].label
              /\ xml_file[i].Title = xml_before[i].Title
              /\ (~Handled(xml_before[i].label) \/ SameKindTitle(xml_before[i]) = {}) =>
                    (tree[i] = xml_before[i] /\ xml_file[i] = xml_before[i])

\* A returned call that updated one entry and passed over an entry of an
\* unrecognised kind whose title a source record bears.
C14_Witness ==
    /\ spc = "done"
    /\ xml_file # xml_before
    /\ \E i \in 1..Len(xml_before) :
          /\ ~Handled(xml_before[i].label)
          /\ \E j \in IdxA : df_csv[j].Title = xml_before[i].Title

\* Entry i holds the Authors and the Journal/Conference of its matching row.
Updated(i) ==
    LET r == df_csv[CHOOSE j \in MatchesOf(xml_before[i]) : TRUE]
    IN tree[i].Authors = r.Authors /\ tree[i].Venue = r.JournalConference

\* C15 (as stated): a failure to tell candidates apart concerns that entry
\* only; when the call ends every other entry has been processed, and updated
\* if it has exactly one matching row.
C15_OthersStillProcessed ==
    spc \in {"done", "raised"} =>
        \A i \in 1..Len(xml_before) :
            ~Unresolvable(i) => (Passed(i) /\ (UniqueMatch(i) => Updated(i)))

\* C15 (amended): the failure ends the call at that entry.  The loop never
\* goes past an entry whose candidates cannot be told apart; when the call has
\* raised, it stands at such an entry, the entries after it are as they were
\* and the file has not been written.
C15_RaiseEndsTheCall ==
    SyncRunning =>
        /\ \A i \in 1..Len(xml_before) : Unresolvable(i) => pos <= i
        /\ spc = "raised" =>
              /\ pos \in 1..Len(xml_before)
              /\ Unresolvable(pos)
              /\ \A i \in pos..Len(xml_before) : tree[i] = xml_before[i]
              /\ xml_file = xml_before

\* A call that raised at an entry which is not the last: an entry of a
\* recognised kind after it was left unprocessed.
C15_Witness ==
    /\ spc = "raised"
    /\ pos < Len(xml_before)
    /\ Handled(xml_before[pos + 1].label)

\* C16: at an entry with two or more rows of its kind and title of which the
\* venue does not leave exactly one, the step raises the ValueError and
\* changes neither the tree nor the file.
C16_RaisesAndPicksNone ==
    [][(spc = "loop" /\ pos \in 1..Len(tree) /\ Unresolvable(pos)) =>
          /\ spc' = "raised"
          /\ serr' = "ValueError"
          /\ tree' = tree
          /\ xml_file' = xml_file]_vars

\* A call that raised at an entry with two rows of its kind, title and venue.
C16_Witness ==
    /\ spc = "raised"
    /\ serr = "ValueError"
    /\ Cardinality(MatchesOf(xml_before[pos])) > 1
    /\ tree[pos] = xml_before[pos]

\* C17: a second call with the same df_csv on the file the first call left
\* ends as the first did, with the same tree and the same file.
C17_SecondCallSameTree ==
    (calls = 2 /\ spc \in {"done", "raised"}) =>
        /\ spc = first_sync.spc
        /\ serr = first_sync.serr
        /\ tree = first_sync.tree
        /\ xml_file = first_sync.file

\* A second call that returned, on a file in which the first call had
\* updated an entry picked by its venue among two rows of its title.
C17_Witness ==
    /\ calls = 2
    /\ spc = "done"
    /\ \E i \in 1..Len(tree) :
          /\ Cardinality(SameKindTitle(tree[i])) > 1
          /\ first_sync.tree[i].Authors = FullAuthors

\* C18 (as stated): sync does not write the file.
C18_FileNeverWritten ==
    SyncRunning => xml_file = xml_before

\* C18 (amended): sync changes the tree in memory while it goes through the
\* entries and, when it has gone through all of them without raising, writes
\* the tree to the file itself; a call that raises leaves the file as it was.
C18_FileWrittenOnReturn ==
    /\ spc \in {"loop", "raised"} => xml_file = xml_before
    /\ spc = "done" => xml_file = tree

\* A returned call whose file differs from the file it was given.
C18_Witness ==
    /\ spc = "done"
    /\ calls = 1
    /\ xml_file # xml_before

\* ------------------------------------------- sync and find_matching_ref
\* usertype2ccvtype (utils.py:22)
CcvType(t) == IF t = "article" THEN "Journal Articles" ELSE "Conference Publications"

\* A row of a frame, seen as the record sync looks up.
AsEntry(row) ==
    [label |-> CcvType(row.Type), Title |-> row.Title,
     Venue |-> row.JournalConference, Authors |-> row.Authors]

\* C19: for every spreadsheet row find_matching_ref has been through, it
\* selected the CCV row that sync's rule selects for the same record among
\* the same candidates, and selected none where sync's rule selects none.
C19_SameRuleAsSync ==
    \A i \in IdxA :
        Attempted(i) =>
            LET sel == SyncSelect(df_ccv, AsEntry(df_csv[i]))
            IN /\ sel.out = "update" => Classified(i, df_ccv[sel.row[1]].ID)
               /\ sel.out # "update" =>
                     \A j \in IdxB : ~Classified(i, df_ccv[j].ID)

\* ----------------------------------------------- replace_ref_in_text: claims
\* The text of txt that is in no block: what is before the first '[' and,
\* for each '[', what follows the next ']'.
OutsideOf(txt) ==
    LET parts == Split(txt, <<"[">>)
        AfterBlock(part) ==
            LET i == Find(part, <<"]">>, 1)
            IN IF i = 0 THEN <<>> ELSE SubSeq(part, i + 1, Len(part))
    IN [n \in 1..Len(parts) |-> IF n = 1 THEN parts[1] ELSE AfterBlock(parts[n])]

\* C20: the line replace_ref_in_text prints has, outside its blocks, the text
\* the input has outside its blocks, and is the input when the input has no
\* block.
C20_OutsideBlocksVerbatim ==
    tpc = "done" =>
        /\ OutsideOf(printed) = OutsideOf(input_refs)
        /\ find_ref_blocks(input_refs) = <<>> => printed = input_refs

\* The block that should stand for block b of the input: the new IDs of its
\* own old IDs, in their order, joined by ', '.
ExpectedBlock(b) ==
    LET ids == Split(b, <<",", " ">>)
    IN Join([n \in 1..Len(ids) |-> NewId(df_old, df_new, ids[n])], <<",", " ">>)

\* C21: the blocks of the printed line are, one for one and in order, the
\* ', '-joined new IDs of the old IDs of the blocks of the input ('?' for an
\* old ID whose title df_new does not have); no block's result depends on
\* the replacement of another block.
C21_EachBlockItsOwnNewIds ==
    tpc = "done" =>
        LET blocks == find_ref_blocks(input_refs)
        IN find_ref_blocks(printed) =
               [n \in 1..Len(blocks) |-> ExpectedBlock(blocks[n])]

\* ------------------------------------------------------- xml_to_df: claims
\* The entries of the two labels xml_to_df reads, among the first n.
ReadUpTo(n) == {i \in 1..n : Handled(xml_doc.entries[i].label)}

\* The rank of entry i among the entries of its label, in document order.
RankInLabel(i) ==
    Cardinality({j \in 1..i : xml_doc.entries[j].label = xml_doc.entries[i].label})

\* C22: the records built are, in document order, those of the entries
\* labelled 'Journal Articles' or 'Conference Publications'; the k-th entry
\* of a label has the ID 'J' + k, resp. 'C' + k; entries of another label
\* give no record, no error and no step of a counter; the IDs are unique.
C22_IdsNumberEachLabel ==
    xpc \in {"loop", "done"} =>
        /\ xerr = ""
        /\ Len(obj_lst) = Cardinality(ReadUpTo(xpos - 1))
        /\ \A i \in ReadUpTo(xpos - 1) :
              obj_lst[Cardinality(ReadUpTo(i))].ID =
                  (IF xml_doc.entries[i].label = "Journal Articles" THEN "J" ELSE "C")
                      \o ToString(RankInLabel(i))
        /\ \A a, b \in 1..Len(obj_lst) : obj_lst[a].ID = obj_lst[b].ID => a = b
        /\ xpc = "done" => df_xml = obj_lst

\* A returned frame whose second record is J2, from a document whose second
\* entry has a label xml_to_df does not read.
C22_Witness ==
    /\ xpc = "done"
    /\ Len(xml_doc.entries) = 3
    /\ xml_doc.entries[2].label = "Book Chapters"
    /\ Len(df_xml) = 2
    /\ df_xml[2].ID = "J2"

\* The exceptions that report something as not found.
NotFoundClass == {"FileNotFoundError", "ValueError", "KeyError", "LookupError"}

\* C23: with a path that does not exist, or a document without the section
\* Contributions/Publications, xml_to_df ends with a not-found error and
\* returns no frame.
C23_NotFoundError ==
    (xpc # "call" /\ (~xml_doc.exists \/ ~xml_doc.section)) =>
        /\ xpc = "raised"
        /\ xerr \in NotFoundClass
        /\ df_xml = <<>>

\* ---------------------------------------------------------- loader: claims
\* The requested names the workbook does not have.
AbsentSheets ==
    IF type_filter.given
    THEN {n \in Range(type_filter.names) : n \notin Range(excel_source.sheet_names)}
    ELSE {}

\* The sheets asked for: all of them when none is named.
AskedFor ==
    IF ~type_filter.given \/ type_filter.names = <<>>
    THEN excel_source.sheet_names ELSE type_filter.names

\* Row n of the returned frame is row (n - before) of the sheet it lies in,
\* where the sheets asked for follow each other in order.
RECURSIVE SheetOfRow(_, _)
SheetOfRow(n, names) ==
    IF n <= Len(excel_source.sheets[Head(names)]) THEN Head(names)
    ELSE SheetOfRow(n - Len(excel_source.sheets[Head(names)]), Tail(names))

RECURSIVE RowsIn(_)
RowsIn(names) ==
    IF names = <<>> THEN 0
    ELSE Len(excel_source.sheets[Head(names)]) + RowsIn(Tail(names))

\* C24: a requested sheet name the workbook lacks makes the loader raise an
\* error that names the invalid and the available names, no sheet having
\* been read; otherwise the returned frame holds the rows of the sheets
\* asked for (of every sheet when none is named), each with the name of its
\* sheet as Type.
C24_LoaderChecksThenTypes ==
    /\ (lpc # "call" /\ AbsentSheets # {}) =>
          /\ lpc = "raised"
          /\ lerr = [type |-> "ValueError", invalid |-> AbsentSheets,
                     valid |-> Range(excel_source.sheet_names)]
          /\ sub_dfs = <<>> /\ return_df = <<>>
    /\ (lpc # "call" /\ AbsentSheets = {}) => lpc # "raised"
    /\ lpc = "done" =>
          /\ Len(return_df) = RowsIn(AskedFor)
          /\ \A n \in 1..Len(return_df) :
                return_df[n].Type = SheetOfRow(n, AskedFor)

\* A frame returned for no request, with rows of two sheets.
C24_Witness ==
    /\ lpc = "done"
    /\ ~type_filter.given
    /\ \E a, b \in 1..Len(return_df) :
          return_df[a].Type = "proceedings" /\ return_df[b].Type = "article" /\ a < b

\* ----------------------------------------------------- gsheet_to_df: claims
\* The cell of column col of row r is empty or missing in frame df.
MissingIn(df, r, col) ==
    \/ col \notin df.columns
    \/ r[col].na
    \/ (col # "Year" /\ r[col].v = EmptyOf(col))

\* Row r of df with its empty and missing cells as empty strings.
Displayed(df, r) ==
    [c \in AllColumns |->
        IF c \in df.columns /\ MissingIn(df, r, c) THEN Val(EmptyOf(c)) ELSE r[c]]

\* The rows of the loaded frame that have every field of the set fields.
RowsWith(fields) ==
    {n \in 1..Len(loaded.rows) :
        \A f \in fields : ~MissingIn(loaded, loaded.rows[n], f)}

\* The cleaned frame is made of the rows of RowsWith(fields), in order, each
\* as it is displayed.
CleanedAre(fields) ==
    /\ df_clean.columns = loaded.columns
    /\ Len(df_clean.rows) = Cardinality(RowsWith(fields))
    /\ \A n \in RowsWith(fields) :
          df_clean.rows[Cardinality({m \in RowsWith(fields) : m <= n})]
              = Displayed(loaded, loaded.rows[n])

\* C25 (as stated): the rows left by the dropping step are exactly the rows
\* that have a Title, a Year and a Journal/Conference, all three non-empty in
\* every row left; their other empty fields are empty strings.
C25_AllThreeNonEmpty ==
    gpc # "call" =>
        /\ CleanedAre({"Title", "Year", "Journal/Conference"})
        /\ \A n \in 1..Len(df_clean.rows) :
              \A f \in {"Title", "Year", "Journal/Conference"} :
                  ~MissingIn(df_clean, df_clean.rows[n], f)

\* C25 (amended): the step drops exactly the rows that are empty or missing
\* in one of Title, Year, Journal/Conference that is a column of the sheet;
\* a field that is not a column drops no row.
C25_NonEmptyWhereColumnExists ==
    gpc # "call" =>
        CleanedAre({"Title", "Year", "Journal/Conference"} \cap loaded.columns)

\* Two rows loaded, one dropped for its empty title, the other kept although
\* it has no authors, which come out as ''.
C25_Witness ==
    /\ gpc = "cleaned"
    /\ Len(loaded.rows) = 2
    /\ "Title" \in loaded.columns
    /\ loaded.rows[1]["Title"] = Val("")
    /\ loaded.rows[2]["Authors"].na
    /\ Len(df_clean.rows) = 1
    /\ df_clean.rows[1]["Authors"] = Val("")
    /\ df_clean.rows[1]["ID"] = loaded.rows[2]["ID"]

\* ----------------------------------------------------- check_labels: claims
\* The authorized labels, and the labels row r carries: the pieces of its
\* Labels cell between commas, without the blanks around them.
Authorized == {Strip(label_file[n]) : n \in 1..Len(label_file)}
Carried(r) ==
    {Strip(Split(r["Labels"].v, <<",">>)[n]) :
        n \in 1..Len(Split(r["Labels"].v, <<",">>))}

\* The rows of the frame check_labels is given that carry a label that is
\* not authorized.
Offending ==
    IF "Labels" \in df_clean.columns
    THEN {n \in 1..Len(df_clean.rows) : ~(Carried(df_clean.rows[n]) \subseteq Authorized)}
    ELSE {}

Given == IF str_num = <<>> THEN <<>> ELSE Split(str_num, <<",">>)

\* The numbers element e stands for: itself, or a..b for 'a:b'.
StandsFor(e) ==
    IF IsNumber(e) THEN {int(e)}
    ELSE {x \in 0..9 : int(Split(e, <<":">>)[1]) <= x /\ x <= int(Split(e, <<":">>)[2])}

WellFormed == \A n \in 1..Len(Given) : IsNumber(Given[n]) \/ IsRange(Given[n])

\* x comes before y in the order of first occurrence: its first element is
\* earlier, or it is the same and x is smaller.
FirstAt(x) == CHOOSE n \in 1..Len(Given) :
                  /\ x \in StandsFor(Given[n])
                  /\ \A m \in 1..(n - 1) : x \notin StandsFor(Given[m])
Before(x, y) == FirstAt(x) < FirstAt(y) \/ (FirstAt(x) = FirstAt(y) /\ x < y)

\* C27: for a well-formed string the list returned holds, once each and in
\* the order of their first occurrence, the numbers its elements stand for;
\* a string with an element that is neither a number nor 'a:b' ends in
\* ValueError.
C27_DistinctInOrderOfOccurrence ==
    /\ ppc = "done" =>
          /\ WellFormed
          /\ Range(list_num) = UNION {StandsFor(Given[n]) : n \in 1..Len(Given)}
          /\ \A a, b \in 1..Len(list_num) :
                a < b => (list_num[a] # list_num[b] /\ Before(list_num[a], list_num[b]))
    /\ ppc = "raised" => (perr = "ValueError" /\ ~WellFormed)
    /\ ppc = "loop" =>
          \A n \in 1..(Len(Given) - Len(elements)) : IsNumber(Given[n]) \/ IsRange(Given[n])

\* '1,1:4' has given [1, 2, 3, 4].
C27_Witness ==
    /\ ppc = "done"
    /\ str_num = <<"1", ",", "1", ":", "4">>
    /\ list_num = <<1, 2, 3, 4>>

\* ------------------------------------------------------ sync: the file
\* C28: when sync has raised on an entry it cannot resolve, the file holds
\* what it held before the call, whatever the loop had changed in the tree
\* for the entries before that one.
C28_RaiseLeavesFile ==
    (spc = "raised" /\ serr = "ValueError") =>
        /\ xml_file = xml_before
        /\ \A i \in 1..Len(xml_file) :
              xml_file[i].Authors = ShortAuthors

\* A call that raised at its second entry after it had updated the first in
\* the tree.
C28_Witness ==
    /\ spc = "raised"
    /\ pos = 2
    /\ tree[1] # xml_before[1]
    /\ tree[1].Authors = FullAuthors
    /\ xml_file[1] = xml_before[1]

\* ------------------------------------- replace_ref_in_text: kinds of the IDs
\* C29: every ID of every block of the printed line is '?' or has the prefix
\* of the ID that stood at its place in the input.
C29_KindIsKept ==
    tpc = "done" =>
        LET before == find_ref_blocks(input_refs)
            after == find_ref_blocks(printed)
        IN /\ Len(after) = Len(before)
           /\ \A n \in 1..Len(before) :
                 LET olds == Split(before[n], <<",", " ">>)
                     news == Split(after[n], <<",", " ">>)
                 IN /\ Len(news) = Len(olds)
                    /\ \A m \in 1..Len(olds) :
                          news[m] = <<"?">> \/ Head(news[m]) = Head(olds[m])

\* ----------------------------------------- student_asterisk_helper: claims
\* C30: the script ends without error and, in the document written, the
\* value of every field labelled Authors or Editors is its own text with the
\* asterisks set anew, and the value of every other field is as it was.
C30_OwnValueOnly ==
    apc \in {"done", "raised"} =>
        /\ apc = "done"
        /\ Len(output_xml) = Len(input_xml)
        /\ \A i \in 1..Len(input_xml) :
              /\ output_xml[i].label = input_xml[i].label
              /\ output_xml[i].value =
                    IF input_xml[i].label \in {"Authors", "Editors"}
                    THEN update_author_list(input_xml[i].value)
                    ELSE input_xml[i].value

====
